---- MODULE Spec2Model ----
(***************************************************************************)
(* Model of TuffyBot (src/main.py): the startup hook, the polling cog      *)
(* watcher and close().  Two asyncio tasks share one event loop: the main  *)
(* task (setup_hook, later close) and the watcher task.  A task runs       *)
(* until its next await, so each action below is one run of a task from    *)
(* one await to the next.                                                  *)
(***************************************************************************)
EXTENDS Integers, Sequences, FiniteSets, TLC

\* ---------------------------------------------------------------- bounds
NumModules == 2      \* module files cogs/m1.py .. cogs/mN.py
MaxTime == 1         \* modification times are 1..MaxTime
MaxHooks == 2        \* calls of setup_hook, where it is called again

Modules == 1..NumModules
Times == 0..MaxTime

\* ------------------------------------------------------- directory input
\* Directory entries: k in Modules is the file "mk.py"; DunderEntry is
\* "__init__.py"; OtherEntry is a file without the .py suffix.
DunderEntry == 0
OtherEntry == -1
Entries == Modules \cup {DunderEntry, OtherEntry}

\* os.path.getmtime either yields a time or raises (file gone, unreadable).
Unreadable == -1
Stats == (1..MaxTime) \cup {Unreadable}

EndsWithPy(e) == e # OtherEntry
StartsWithDunder(e) == e = DunderEntry

\* `if not entry.endswith(".py") or entry.startswith("__"): continue`
IsCogFile(e) == ~(~EndsWithPy(e) \/ StartsWithDunder(e))

\* module = f"cogs.{entry[:-3]}": the module of file mk.py is named by k
ModuleOf(e) == e

\* try: os.path.getmtime(fullpath) except Exception: 0.0
GetMTime(st) == IF st = Unreadable THEN 0 ELSE st

\* sorted(...) of a set of entries
RECURSIVE SortedSeq(_)
SortedSeq(S) ==
    IF S = {} THEN <<>>
    ELSE LET lo == CHOOSE x \in S : \A y \in S : x <= y
         IN <<lo>> \o SortedSeq(S \ {lo})

\* The directories the file system can show: a set of entries, each module
\* file with the outcome of getmtime on it.
Directories ==
    UNION {[(ms \cup xs) -> Stats] : ms \in SUBSET Modules,
                                     xs \in {{}, {DunderEntry, OtherEntry}}}

\* ------------------------------------------------------------------ dict
\* A Python dict is an insertion-ordered sequence of <<key, value>> pairs.
Keys(d) == {d[i][1] : i \in DOMAIN d}
Has(d, k) == k \in Keys(d)
Get(d, k) == d[CHOOSE i \in DOMAIN d : d[i][1] = k][2]
Put(d, k, v) ==
    IF Has(d, k)
    THEN [i \in DOMAIN d |-> IF d[i][1] = k THEN <<k, v>> ELSE d[i]]
    ELSE Append(d, <<k, v>>)
SetDefault(d, k, v) == IF Has(d, k) THEN d ELSE Append(d, <<k, v>>)
Pop(d, k) == SelectSeq(d, LAMBDA p : p[1] # k)

\* The watcher's scan loop: current[module] = mtime for each cog file of
\* the sorted listing.
RECURSIVE BuildCurrent(_, _)
BuildCurrent(listing, dir) ==
    IF listing = <<>> THEN <<>>
    ELSE LET e == Head(listing)
             rest == BuildCurrent(Tail(listing), dir)
         IN IF IsCogFile(e)
            THEN <<(<<ModuleOf(e), GetMTime(dir[e])>>)>> \o rest
            ELSE rest

ScanDir(dir) == BuildCurrent(SortedSeq(DOMAIN dir), dir)

\* ----------------------------------------------------------------- state
VARIABLES
    cog_mtimes,       \* self._cog_mtimes: dict module -> mtime
    cog_watcher_task, \* self._cog_watcher_task: 0 is None, k the k-th task created
    extensions,       \* self.extensions: the modules the loader holds loaded
    mpc,              \* main task: position in setup_hook / close
    hookBudget,       \* calls of setup_hook the library has yet to make
    lcEntries,        \* load_cogs: the sorted listing being iterated
    lcIdx,            \* load_cogs: position in lcEntries
    lcMtime,          \* load_cogs: mtime of the entry whose load is awaited
    wpc,              \* watcher task: position in _cog_watcher
    current,          \* watcher: the dict built by this cycle's scan
    idx,              \* watcher: position in the loop being iterated
    removed,          \* watcher: the list `removed` of this cycle
    cancelRequested,  \* task.cancel() was called and not yet delivered
    lastScan,         \* outcome of the watcher's last directory access
    prevReg,          \* history: cog_mtimes as of this cycle's scan
    prevExt,          \* history: extensions as of this cycle's scan
    log,              \* history: loader and sync calls of this cycle
    syncFailed,       \* history: a tree.sync() of this cycle raised
    failedAt,         \* history: module -> mtime of its last attempt, if it failed
    retryWatch,       \* history: whether failedAt is being kept
    cyclePhase,       \* history: "none" before the watcher's first cycle,
                      \* "first" in it, "later" afterwards; "unkept" where
                      \* this is not kept
    removedAt         \* history: module -> mtime its record held when it was
                      \* last popped; <<>> where this is not kept

vars == <<cog_mtimes, cog_watcher_task, extensions, mpc, hookBudget, lcEntries,
          lcIdx, lcMtime, wpc, current, idx, removed, cancelRequested, lastScan,
          prevReg, prevExt, log, syncFailed, failedAt, retryWatch, removedAt,
          cyclePhase>>

mainVars == <<mpc, hookBudget, cog_watcher_task, lcEntries, lcIdx, lcMtime>>
watcherLocals == <<current, idx, removed>>
cycleHist == <<prevReg, prevExt, syncFailed, retryWatch, cyclePhase>>

NoTime == -1

\* ------------------------------------------------------------- history
CallStart(op, m) == Append(log, [op |-> op, m |-> m, res |-> "pending"])
CallEnd(res) == [log EXCEPT ![Len(log)].res = res]
Res(ok) == IF ok THEN "ok" ELSE "fail"
NoHistory ==
    /\ prevReg' = <<>>
    /\ prevExt' = {}
    /\ log' = <<>>
    /\ syncFailed' = FALSE
    /\ failedAt' = [m \in Modules |-> NoTime]
    /\ retryWatch' = retryWatch
    /\ removedAt' = IF removedAt = <<>> THEN <<>> ELSE [m \in Modules |-> NoTime]
    /\ cyclePhase' = IF cyclePhase = "unkept" THEN "unkept" ELSE "none"

\* A load or reload of `module`, made for the mtime `mtime`, has returned.
NoteAttempt(module, mtime, ok) ==
    failedAt' = IF retryWatch
                THEN [failedAt EXCEPT ![module] = IF ok THEN NoTime ELSE mtime]
                ELSE failedAt

\* The record of `module` is popped (module 0: no record is).
NotePop(module) ==
    IF removedAt = <<>> \/ module = 0 THEN removedAt
    ELSE [removedAt EXCEPT ![module] = Get(cog_mtimes, module)]

\* setup_hook called again while the watcher runs is not part of the
\* history, which then is the watcher's.
HookCallStart(lg, op, m) ==
    IF wpc = "none" THEN Append(lg, [op |-> op, m |-> m, res |-> "pending"]) ELSE log
HookCallEnd(res) == IF wpc = "none" THEN CallEnd(res) ELSE log

Init ==
    /\ cog_mtimes = <<>>
    /\ cyclePhase = "unkept"
    /\ cog_watcher_task = 0
    /\ hookBudget = 1
    /\ removedAt = <<>>
    /\ extensions = {}
    /\ mpc = "init"
    /\ lcEntries = <<>>
    /\ lcIdx = 1
    /\ lcMtime = 0
    /\ wpc = "none"
    /\ current = <<>>
    /\ idx = 1
    /\ removed = <<>>
    /\ cancelRequested = FALSE
    /\ lastScan = "none"
    /\ prevReg = <<>>
    /\ prevExt = {}
    /\ log = <<>>
    /\ syncFailed = FALSE
    /\ failedAt = [m \in Modules |-> NoTime]
    /\ retryWatch = FALSE


\* ------------------------------------------------ external collaborators
\* discord.py's extension loader, as the watcher relies on it: a successful
\* load adds the module to self.extensions, a successful unload removes it,
\* a successful reload keeps it.  A failed load leaves self.extensions
\* alone; what a failed reload or unload, or a call torn down by a
\* cancellation, leaves behind is the library's business: either outcome.
ExtAfter(op, m, res) ==
    CASE op = "load" /\ res = "ok" -> {extensions \cup {m}}
      [] op = "load" /\ res = "fail" -> {extensions}
      [] op = "reload" /\ res = "ok" -> {extensions}
      [] op = "unload" /\ res = "ok" -> {extensions \ {m}}
      [] op = "load" /\ res = "cancelled" -> {extensions, extensions \cup {m}}
      [] OTHER -> {extensions, extensions \ {m}}

\* ------------------------------------------------------ event-loop rules
\* The watcher's positions are its awaits (the task is suspended there),
\* "none" (no task), "created" (task not yet run) and its three ends.
LoaderAwaits == {"added_load", "mod_reload", "mod_load", "rem_unload"}
SyncAwaits == {"added_sync", "mod_sync", "rem_sync"}
CycleAwaits == LoaderAwaits \cup SyncAwaits
WatcherAwaits == CycleAwaits \cup {"sleep"}
WatcherDone == {"returned", "cancelled", "crashed"}

\* One event loop: the watcher runs only while the main task is suspended
\* (idle after setup_hook, awaiting the watcher in close(), or, where
\* setup_hook is called again, in one of setup_hook's awaits).
MainSuspended == mpc \in {"running", "close_await", "lc_load", "setup_sync"}

\* ... and the main task runs only while the watcher is suspended in an
\* await, not yet run, or finished ("scan" is the one position of the
\* watcher that is no await).
WatcherSuspended == wpc # "scan"

\* ------------------------------------------------------------ setup_hook
\* load_cogs, lines 82-84: the loop runs on to the next cog file.  The
\* result is the index of that entry, or Len(entries) + 1.
RECURSIVE NextCogEntry(_, _)
NextCogEntry(entries, i) ==
    IF i > Len(entries) THEN i
    ELSE IF IsCogFile(entries[i]) THEN i
    ELSE NextCogEntry(entries, i + 1)

\* load_cogs from entry i on, up to the next await: the load of the next
\* cog file (lines 85-92), or, load_cogs over and its locals gone,
\* setup_hook's tree.sync() (lines 62-65).  lg is the history so far.
LoadCogsFrom(entries, i, lg) ==
    LET j == NextCogEntry(entries, i) IN
    IF j > Len(entries)
    THEN /\ mpc' = "setup_sync"
         /\ lcEntries' = <<>>
         /\ lcIdx' = 1
         /\ lcMtime' = 0
         /\ log' = HookCallStart(lg, "sync", 0)
    ELSE /\ mpc' = "lc_load"
         /\ lcEntries' = entries
         /\ lcIdx' = j
         /\ \E st \in Stats : lcMtime' = GetMTime(st)
         /\ log' = HookCallStart(lg, "load", ModuleOf(entries[j]))

\* setup_hook, line 62, and load_cogs, lines 77-92: the isdir test, the
\* sorted listing, and the loop up to the first awaited load.
SetupHook ==
    /\ mpc \in {"init", "running"}
    /\ WatcherSuspended
    /\ hookBudget > 0
    /\ hookBudget' = hookBudget - 1
    /\ \E isdir \in BOOLEAN :
         IF ~isdir
         THEN LoadCogsFrom(<<>>, 1, log)
         ELSE \E dir \in Directories : LoadCogsFrom(SortedSeq(DOMAIN dir), 1, log)
    /\ UNCHANGED <<cog_mtimes, cog_watcher_task, extensions, wpc, watcherLocals,
                   cancelRequested, lastScan, cycleHist, failedAt, removedAt>>

\* A slip of lines 96-99: nothing recorded for a module whose load failed.
RecordStartupLoadIfOk(reg, m, mtime, ok) == IF ok THEN Put(reg, m, mtime) ELSE reg

\* load_cogs, lines 95 and 99: what the registry records after the load.
RecordStartupLoad(reg, m, mtime, ok) ==
    IF ok THEN Put(reg, m, mtime) ELSE SetDefault(reg, m, mtime)

\* A slip of lines 91-99: the try around the loop, so that a failed load
\* ends it.  n is the length of the listing.
AfterStartupLoadStops(ok, i, n) == IF ok THEN i + 1 ELSE n + 1

\* lines 82, 91-99: the try/except is inside the loop body, so after the
\* load of entry i, failed or not, the loop goes on with entry i + 1.
AfterStartupLoad(ok, i, n) == i + 1

\* load_cogs, lines 92-99: load_extension returns or raises, the mtime is
\* recorded, and the loop goes on to the next await.
LoadCogsLoadReturn ==
    /\ mpc = "lc_load"
    /\ WatcherSuspended
    /\ LET module == ModuleOf(lcEntries[lcIdx]) IN
       \E ok \in BOOLEAN :
         /\ \E e \in ExtAfter("load", module, Res(ok)) : extensions' = e
         /\ cog_mtimes' = RecordStartupLoad(cog_mtimes, module, lcMtime, ok)
         /\ NoteAttempt(module, lcMtime, ok)
         /\ LoadCogsFrom(lcEntries, AfterStartupLoad(ok, lcIdx, Len(lcEntries)),
                         HookCallEnd(Res(ok)))
    /\ UNCHANGED <<cog_watcher_task, hookBudget, wpc, watcherLocals,
                   cancelRequested, lastScan, cycleHist, removedAt>>

\* A slip of line 71: the task created whatever the field holds.
CreateWatcherTaskAlways(task) == task + 1

\* lines 71-73: `if self._cog_watcher_task is None:` create the task and
\* keep it in the field; the field is left alone when it holds a task.
CreateWatcherTask(task) == IF task = 0 THEN 1 ELSE task

\* setup_hook, lines 64-73: the sync returns or raises (caught), then the
\* watcher task is created when there is none.
SetupSyncReturn ==
    /\ mpc = "setup_sync"
    /\ WatcherSuspended
    /\ \E ok \in BOOLEAN :
         /\ log' = HookCallEnd("done")
         /\ syncFailed' = IF wpc = "none" THEN ~ok ELSE syncFailed
    /\ cog_watcher_task' = CreateWatcherTask(cog_watcher_task)
    /\ wpc' = IF cog_watcher_task' # cog_watcher_task THEN "created" ELSE wpc
    /\ mpc' = "running"
    /\ UNCHANGED <<cog_mtimes, extensions, hookBudget, lcEntries, lcIdx, lcMtime,
                   watcherLocals, cancelRequested, lastScan, prevReg, prevExt,
                   failedAt, retryWatch, removedAt, cyclePhase>>

\* ---------------------------------------------------------- _cog_watcher
\* A slip of line 136: a module the loader still holds is not taken as new.
IsAddedUnlessLoaded(reg, module) == ~Has(reg, module) /\ module \notin extensions

\* A slip of line 136: a recorded module that is not loaded is taken as
\* new again.
IsAddedOrNotLoaded(reg, module) == ~Has(reg, module) \/ module \notin extensions

\* line 136: `if module not in self._cog_mtimes`
IsAdded(reg, module) == ~Has(reg, module)

\* A slip of line 155: `>=` for `>`.
IsModifiedNotOlder(reg, module, mtime) == Has(reg, module) /\ mtime >= Get(reg, module)

\* A slip of line 155: `!=` for `>`.
IsModifiedAnyChange(reg, module, mtime) == Has(reg, module) /\ mtime # Get(reg, module)

\* lines 152-155: prev = get(module); skip when None; `if mtime > prev`
IsModified(reg, module, mtime) == Has(reg, module) /\ mtime > Get(reg, module)

\* A slip of line 173: only the loaded modules are taken as removed.
RemovedListLoadedOnly(reg, cur) ==
    LET gone == SelectSeq(reg, LAMBDA p : ~Has(cur, p[1]) /\ p[1] \in extensions)
    IN [i \in DOMAIN gone |-> gone[i][1]]

\* line 173: [m for m in list(self._cog_mtimes.keys()) if m not in current]
RemovedList(reg, cur) ==
    LET gone == SelectSeq(reg, LAMBDA p : ~Has(cur, p[1]))
    IN [i \in DOMAIN gone |-> gone[i][1]]

\* A slip of line 143: the mtime recorded inside the try, on success only.
RecordAddedIfLoaded(reg, module, mtime, ok) == IF ok THEN Put(reg, module, mtime) ELSE reg

\* A slip of line 143: the baseline 0.0 recorded for a new module in place
\* of the scan's mtime.
RecordAddedAtZero(reg, module, mtime, ok) == Put(reg, module, 0)

\* line 143: after the try/except around the load, whatever its outcome
RecordAdded(reg, module, mtime, ok) == Put(reg, module, mtime)

\* A slip of line 166: the mtime recorded inside the try, on success only.
RecordModifiedIfOk(reg, module, mtime, ok) == IF ok THEN Put(reg, module, mtime) ELSE reg

\* line 166: after the try/except around the reload or load
RecordModified(reg, module, mtime, ok) == Put(reg, module, mtime)

\* A slip of line 182: the record popped inside the try, on success only.
RecordRemovedIfUnloaded(reg, module, ok) == IF ok THEN Pop(reg, module) ELSE reg

\* A slip of line 182: the record of a removed module is never popped.
RecordRemovedKeepsRecord(reg, module, ok) == reg

\* line 182: after the try/except around the unload
RecordRemoved(reg, module, ok) == Pop(reg, module)

\* A slip of the handlers: no `except Exception` at the call, the error
\* leaves the loop and ends the task.
AfterCallEscapes(ok, next) == IF ok THEN next ELSE "crashed"

\* A slip of the handlers: one try around the loops instead of one per
\* call, so a failure abandons the rest of the cycle.
AfterCallAbandonsCycle(ok, next) == IF ok THEN next ELSE "sleep"

\* lines 141, 147, 164, 169, 180, 185: `except Exception` around each
\* awaited call prints the failure and execution goes on at `next`.
AfterCall(ok, next) == next

\* A variant of lines 145-146, 167-168, 183-184: one sync for the cycle.
StartSyncOncePerCycle(lg, module) ==
    IF \E i \in DOMAIN lg : lg[i].op = "sync"
    THEN lg
    ELSE Append(lg, [op |-> "sync", m |-> module, res |-> "pending"])

\* lines 145-146, 167-168, 183-184: `await self.tree.sync()` inside the
\* loop body, right after the record of `module` is written or popped.
\* lg is the history so far.
StartSync(lg, module) == Append(lg, [op |-> "sync", m |-> module, res |-> "pending"])

\* A variant of lines 189-191: the cancellation is seen at the sleep only.
OnCancelledAtSleepOnly(pc) == IF pc = "sleep" THEN "cancelled" ELSE pc

\* A slip of lines 188-191: the sleep's CancelledError caught inside the
\* loop, which then goes on to its next pass.
OnCancelledStartsCycle(pc) == IF pc = "sleep" THEN "scan" ELSE "cancelled"

\* lines 120, 189-191: CancelledError is raised at the await the task is
\* suspended in; it is no Exception, so only the outer handler catches it
\* and the coroutine returns.
OnCancelled(pc) == "cancelled"

\* A stop of the watcher: the await it runs on to.  `pop` is the module
\* whose record the run deletes on its way (0 when none).
Stop(pc, i, rem, pop) == [pc |-> pc, idx |-> i, removed |-> rem, pop |-> pop]

\* A slip of line 158: reload whether the module is loaded or not.
ModifiedCallAlwaysReload(module, ext) == "mod_reload"

\* lines 158-162: reload_extension when the module is in self.extensions,
\* load_extension otherwise.
ModifiedCall(module, ext) == IF module \in ext THEN "mod_reload" ELSE "mod_load"

\* A slip of line 177: unload_extension called for every removed module.
RemovedFromUnloadsAll(rem, i, ext) ==
    IF i > Len(rem) THEN Stop("sleep", i, rem, 0)
    ELSE Stop("rem_unload", i, rem, 0)

\* lines 174-184, 188: the removed loop from position i on.  A loaded
\* module's unload is awaited; a module that is not loaded has its record
\* popped and the sync awaited; at the end of the list the watcher sleeps.
RemovedFrom(rem, i, ext) ==
    IF i > Len(rem) THEN Stop("sleep", i, rem, 0)
    ELSE IF rem[i] \in ext THEN Stop("rem_unload", i, rem, 0)
    ELSE Stop("rem_sync", i, rem, rem[i])

\* lines 151-162, 173: the modified loop from position i on, up to the
\* awaited reload (load when the module is not loaded); at its end the
\* list `removed` is built and its loop entered.
RECURSIVE ModifiedFrom(_, _, _, _)
ModifiedFrom(cur, i, reg, ext) ==
    IF i > Len(cur) THEN RemovedFrom(RemovedList(reg, cur), 1, ext)
    ELSE IF IsModified(reg, cur[i][1], cur[i][2])
         THEN Stop(ModifiedCall(cur[i][1], ext), i, <<>>, 0)
         ELSE ModifiedFrom(cur, i + 1, reg, ext)

\* A variant of lines 135-170: one loop over `current` that handles each
\* module as new or as modified in turn.
RECURSIVE AddedFromOneLoop(_, _, _, _)
AddedFromOneLoop(cur, i, reg, ext) ==
    IF i > Len(cur) THEN ModifiedFrom(cur, 1, reg, ext)
    ELSE IF IsAdded(reg, cur[i][1]) THEN Stop("added_load", i, <<>>, 0)
         ELSE IF IsModified(reg, cur[i][1], cur[i][2])
              THEN Stop(ModifiedCall(cur[i][1], ext), i, <<>>, 0)
              ELSE AddedFromOneLoop(cur, i + 1, reg, ext)

\* lines 135-139: the added loop from position i on, up to the awaited
\* load of a module the registry does not hold; at its end the modified
\* loop is entered.
RECURSIVE AddedFrom(_, _, _, _)
AddedFrom(cur, i, reg, ext) ==
    IF i > Len(cur) THEN ModifiedFrom(cur, 1, reg, ext)
    ELSE IF IsAdded(reg, cur[i][1]) THEN Stop("added_load", i, <<>>, 0)
         ELSE AddedFrom(cur, i + 1, reg, ext)

\* The watcher runs on to stop s: its position, its loop variables, the
\* record a not-loaded removed module loses, and the history of the call
\* it starts.  lg is the history so far.
RunTo(s, cur, lg) ==
    /\ wpc' = s.pc
    /\ idx' = s.idx
    /\ removed' = s.removed
    /\ cog_mtimes' = IF s.pop = 0 THEN cog_mtimes ELSE RecordRemoved(cog_mtimes, s.pop, TRUE)
    /\ removedAt' = NotePop(s.pop)
    /\ log' = CASE s.pc = "sleep" -> lg
                [] s.pc = "rem_sync" -> StartSync(lg, s.pop)
                [] s.pc = "rem_unload" ->
                     Append(lg, [op |-> "unload", m |-> s.removed[s.idx], res |-> "pending"])
                [] s.pc = "mod_reload" ->
                     Append(lg, [op |-> "reload", m |-> cur[s.idx][1], res |-> "pending"])
                [] OTHER ->
                     Append(lg, [op |-> "load", m |-> cur[s.idx][1], res |-> "pending"])

\* lines 121-123: the top of `while True`: `current = {}`.  The history of
\* the cycle starts here.
BeginCycle ==
    /\ wpc' = "scan"
    /\ current' = <<>>
    /\ idx' = 1
    /\ removed' = <<>>
    /\ prevReg' = cog_mtimes
    /\ prevExt' = extensions
    /\ log' = <<>>
    /\ syncFailed' = FALSE
    /\ UNCHANGED <<cog_mtimes, extensions, mainVars, cancelRequested, lastScan,
                   failedAt, retryWatch, removedAt>>

\* lines 116-118: the watcher returns at once when there is no directory,
\* and enters its loop otherwise.
WatcherStart ==
    /\ wpc = "created"
    /\ MainSuspended
    /\ ~cancelRequested
    /\ \E isdir \in BOOLEAN :
         IF isdir
         THEN /\ BeginCycle
              /\ cyclePhase' = IF cyclePhase = "unkept" THEN "unkept" ELSE "first"
         ELSE /\ wpc' = "returned"
              /\ lastScan' = "unavailable"
              /\ UNCHANGED <<cog_mtimes, extensions, mainVars, watcherLocals,
                             cancelRequested, cycleHist, log, failedAt, removedAt>>

\* line 188: asyncio.sleep(interval) returns and the loop starts over.
SleepReturn ==
    /\ wpc = "sleep"
    /\ MainSuspended
    /\ ~cancelRequested
    /\ BeginCycle
    /\ cyclePhase' = IF cyclePhase = "unkept" THEN "unkept" ELSE "later"

\* lines 124-139: the scan, then the loops up to the first await.
\* os.listdir is inside no handler that catches OSError, so a directory
\* that cannot be listed ends the task.
Scan ==
    /\ wpc = "scan"
    /\ MainSuspended
    /\ \E listable \in BOOLEAN :
         IF listable
         THEN /\ \E dir \in Directories : current' = ScanDir(dir)
              /\ lastScan' = "ok"
              /\ RunTo(AddedFrom(current', 1, cog_mtimes, extensions), current', log)
         ELSE /\ lastScan' = "unavailable"
              /\ wpc' = "crashed"
              /\ UNCHANGED <<cog_mtimes, watcherLocals, log, removedAt>>
    /\ UNCHANGED <<extensions, mainVars, cancelRequested, cycleHist, failedAt>>

\* lines 139-146: load_extension returns or raises, the mtime is recorded,
\* tree.sync() is awaited.
AddedLoadReturn ==
    /\ wpc = "added_load"
    /\ MainSuspended
    /\ ~cancelRequested
    /\ LET module == current[idx][1]
           mtime == current[idx][2]
       IN \E ok \in BOOLEAN :
            /\ \E e \in ExtAfter("load", module, Res(ok)) : extensions' = e
            /\ cog_mtimes' = RecordAdded(cog_mtimes, module, mtime, ok)
            /\ NoteAttempt(module, mtime, ok)
            /\ wpc' = AfterCall(ok, "added_sync")
            /\ log' = StartSync(CallEnd(Res(ok)), module)
    /\ UNCHANGED <<mainVars, watcherLocals, cancelRequested, lastScan, cycleHist,
                   removedAt>>

\* lines 157-168: reload_extension or load_extension returns or raises,
\* the mtime is recorded, tree.sync() is awaited.
ModifiedCallReturn ==
    /\ wpc \in {"mod_reload", "mod_load"}
    /\ MainSuspended
    /\ ~cancelRequested
    /\ LET module == current[idx][1]
           mtime == current[idx][2]
           op == IF wpc = "mod_reload" THEN "reload" ELSE "load"
       IN \E ok \in BOOLEAN :
            /\ \E e \in ExtAfter(op, module, Res(ok)) : extensions' = e
            /\ cog_mtimes' = RecordModified(cog_mtimes, module, mtime, ok)
            /\ NoteAttempt(module, mtime, ok)
            /\ wpc' = AfterCall(ok, "mod_sync")
            /\ log' = StartSync(CallEnd(Res(ok)), module)
    /\ UNCHANGED <<mainVars, watcherLocals, cancelRequested, lastScan, cycleHist,
                   removedAt>>

\* lines 178-184: unload_extension returns or raises, the record is
\* popped, tree.sync() is awaited.
RemovedUnloadReturn ==
    /\ wpc = "rem_unload"
    /\ MainSuspended
    /\ ~cancelRequested
    /\ LET module == removed[idx] IN
       \E ok \in BOOLEAN :
            /\ \E e \in ExtAfter("unload", module, Res(ok)) : extensions' = e
            /\ cog_mtimes' = RecordRemoved(cog_mtimes, module, ok)
            /\ removedAt' = NotePop(module)
            /\ wpc' = AfterCall(ok, "rem_sync")
            /\ log' = StartSync(CallEnd(Res(ok)), module)
    /\ UNCHANGED <<mainVars, watcherLocals, cancelRequested, lastScan,
                   cycleHist, failedAt>>

\* lines 146-148, 168-170, 184-186: tree.sync() returns or raises (caught)
\* and the loop it is in goes on to the next await.
SyncReturn ==
    /\ wpc \in SyncAwaits
    /\ MainSuspended
    /\ ~cancelRequested
    /\ \E ok \in BOOLEAN :
         LET next == AfterCall(ok, wpc) IN
         /\ syncFailed' = (syncFailed \/ ~ok)
         /\ IF next = "added_sync"
              THEN RunTo(AddedFrom(current, idx + 1, cog_mtimes, extensions), current, CallEnd("done"))
            ELSE IF next = "mod_sync"
              THEN RunTo(ModifiedFrom(current, idx + 1, cog_mtimes, extensions), current, CallEnd("done"))
            ELSE IF next = "rem_sync"
              THEN RunTo(RemovedFrom(removed, idx + 1, extensions), current, CallEnd("done"))
            ELSE /\ wpc' = next
                 /\ log' = CallEnd("done")
                 /\ UNCHANGED <<idx, removed, cog_mtimes, removedAt>>
    /\ UNCHANGED <<extensions, mainVars, current, cancelRequested, lastScan,
                   prevReg, prevExt, failedAt, retryWatch, cyclePhase>>

\* The module and the call of the loader await the watcher is suspended in.
PendingModule == IF wpc = "rem_unload" THEN removed[idx] ELSE current[idx][1]
PendingOp ==
    CASE wpc = "rem_unload" -> "unload"
      [] wpc = "mod_reload" -> "reload"
      [] OTHER -> "load"

\* lines 189-191 (and a task cancelled before its first step): the
\* cancellation is delivered at the await the watcher is suspended in.
CancelDeliver ==
    /\ cancelRequested
    /\ wpc \in WatcherAwaits \cup {"created"}
    /\ MainSuspended
    /\ wpc' = OnCancelled(wpc)
    /\ cancelRequested' = FALSE
    /\ IF wpc \in LoaderAwaits
       THEN \E e \in ExtAfter(PendingOp, PendingModule, "cancelled") : extensions' = e
       ELSE extensions' = extensions
    /\ log' = IF wpc \in CycleAwaits THEN CallEnd("cancelled") ELSE log
    /\ UNCHANGED <<cog_mtimes, mainVars, watcherLocals, lastScan, cycleHist,
                   failedAt, removedAt>>

\* ----------------------------------------------------------------- close
\* lines 195-199: cancel the watcher task when there is one, then await it.
\* task.cancel() on a task that is done requests nothing.
CloseStart ==
    /\ mpc \in {"init", "running"}
    /\ WatcherSuspended
    /\ IF wpc = "none"
       THEN /\ mpc' = "super_close"
            /\ UNCHANGED cancelRequested
       ELSE /\ mpc' = "close_await"
            /\ cancelRequested' = (wpc \notin WatcherDone)
    /\ UNCHANGED <<cog_mtimes, cog_watcher_task, extensions, hookBudget,
                   lcEntries, lcIdx, lcMtime, wpc, watcherLocals, lastScan,
                   cycleHist, log, failedAt, removedAt>>

\* A slip of line 199: the task is cancelled but not awaited.
AwaitTaskNoJoin(pc) == TRUE

\* line 199: `await task` resumes close() when the task is done.
AwaitTask(pc) == pc \in WatcherDone

\* lines 199-202: `await task` ends when the task has: a CancelledError is
\* passed over and super().close() awaited; any other exception of the
\* task is raised out of close().  The finished coroutine's locals are
\* gone, and with them the history of its last cycle.
CloseAwaitReturn ==
    /\ mpc = "close_await"
    /\ AwaitTask(wpc)
    /\ mpc' = IF wpc = "crashed" THEN "close_raised" ELSE "super_close"
    /\ current' = <<>>
    /\ idx' = 1
    /\ removed' = <<>>
    /\ NoHistory
    /\ UNCHANGED <<cog_mtimes, cog_watcher_task, extensions, hookBudget,
                   lcEntries, lcIdx, lcMtime, wpc, cancelRequested, lastScan>>

\* line 202: super().close() returns.
SuperClose ==
    /\ mpc = "super_close"
    /\ mpc' = "closed"
    /\ UNCHANGED <<cog_mtimes, cog_watcher_task, extensions, hookBudget,
                   lcEntries, lcIdx, lcMtime, wpc, watcherLocals, cancelRequested,
                   lastScan, cycleHist, log, failedAt, removedAt>>

\* lines 195-202, close() called again after it has returned or raised:
\* the task is done, so task.cancel() requests nothing and `await task`
\* does not suspend; it raises the task's exception, if it ended with one,
\* out of close() again, and otherwise super().close() is awaited.
CloseAgain ==
    /\ mpc \in {"closed", "close_raised"}
    /\ mpc' = IF wpc = "crashed" THEN "close_raised" ELSE "super_close"
    /\ UNCHANGED <<cog_mtimes, cog_watcher_task, extensions, hookBudget,
                   lcEntries, lcIdx, lcMtime, wpc, watcherLocals, cancelRequested,
                   lastScan, cycleHist, log, failedAt, removedAt>>

\* --------------------------------------------------------- specification
Next ==
    \/ SetupHook
    \/ LoadCogsLoadReturn
    \/ SetupSyncReturn
    \/ WatcherStart
    \/ SleepReturn
    \/ Scan
    \/ AddedLoadReturn
    \/ ModifiedCallReturn
    \/ RemovedUnloadReturn
    \/ SyncReturn
    \/ CancelDeliver
    \/ CloseStart
    \/ CloseAwaitReturn
    \/ SuperClose
    \/ CloseAgain

Spec == Init /\ [][Next]_vars

\* The event loop runs a task that is ready: the watcher's first step, and
\* its step after each await once the awaited call has ended or the sleep's
\* time has passed (every loader and sync call does return).  A pending
\* cancellation takes the place of that step.
WatcherProgress ==
    /\ WF_vars(WatcherStart)
    /\ WF_vars(SleepReturn)
    /\ WF_vars(Scan)
    /\ WF_vars(AddedLoadReturn)
    /\ WF_vars(ModifiedCallReturn)
    /\ WF_vars(RemovedUnloadReturn)
    /\ WF_vars(SyncReturn)

SpecLive == Init /\ [][Next]_vars /\ WatcherProgress

\* The same program with the history of failed attempts kept.
InitRetry ==
    /\ cog_mtimes = <<>>
    /\ cyclePhase = "unkept"
    /\ cog_watcher_task = 0
    /\ hookBudget = 1
    /\ removedAt = <<>>
    /\ extensions = {}
    /\ mpc = "init"
    /\ lcEntries = <<>>
    /\ lcIdx = 1
    /\ lcMtime = 0
    /\ wpc = "none"
    /\ current = <<>>
    /\ idx = 1
    /\ removed = <<>>
    /\ cancelRequested = FALSE
    /\ lastScan = "none"
    /\ prevReg = <<>>
    /\ prevExt = {}
    /\ log = <<>>
    /\ syncFailed = FALSE
    /\ failedAt = [m \in Modules |-> NoTime]
    /\ retryWatch = TRUE

SpecRetry == InitRetry /\ [][Next]_vars

\* The same program with setup_hook called up to MaxHooks times.
InitRehook ==
    /\ cog_mtimes = <<>>
    /\ cyclePhase = "unkept"
    /\ cog_watcher_task = 0
    /\ hookBudget = MaxHooks
    /\ removedAt = <<>>
    /\ extensions = {}
    /\ mpc = "init"
    /\ lcEntries = <<>>
    /\ lcIdx = 1
    /\ lcMtime = 0
    /\ wpc = "none"
    /\ current = <<>>
    /\ idx = 1
    /\ removed = <<>>
    /\ cancelRequested = FALSE
    /\ lastScan = "none"
    /\ prevReg = <<>>
    /\ prevExt = {}
    /\ log = <<>>
    /\ syncFailed = FALSE
    /\ failedAt = [m \in Modules |-> NoTime]
    /\ retryWatch = FALSE

SpecRehook == InitRehook /\ [][Next]_vars

\* The same program with the history of popped records kept.
InitReadd ==
    /\ cog_mtimes = <<>>
    /\ cyclePhase = "unkept"
    /\ cog_watcher_task = 0
    /\ hookBudget = 1
    /\ removedAt = [m \in Modules |-> NoTime]
    /\ extensions = {}
    /\ mpc = "init"
    /\ lcEntries = <<>>
    /\ lcIdx = 1
    /\ lcMtime = 0
    /\ wpc = "none"
    /\ current = <<>>
    /\ idx = 1
    /\ removed = <<>>
    /\ cancelRequested = FALSE
    /\ lastScan = "none"
    /\ prevReg = <<>>
    /\ prevExt = {}
    /\ log = <<>>
    /\ syncFailed = FALSE
    /\ failedAt = [m \in Modules |-> NoTime]
    /\ retryWatch = FALSE

SpecReadd == InitReadd /\ [][Next]_vars

\* The same program with the watcher's first cycle told from the later ones.
InitFirst ==
    /\ cog_mtimes = <<>>
    /\ cyclePhase = "none"
    /\ cog_watcher_task = 0
    /\ hookBudget = 1
    /\ removedAt = <<>>
    /\ extensions = {}
    /\ mpc = "init"
    /\ lcEntries = <<>>
    /\ lcIdx = 1
    /\ lcMtime = 0
    /\ wpc = "none"
    /\ current = <<>>
    /\ idx = 1
    /\ removed = <<>>
    /\ cancelRequested = FALSE
    /\ lastScan = "none"
    /\ prevReg = <<>>
    /\ prevExt = {}
    /\ log = <<>>
    /\ syncFailed = FALSE
    /\ failedAt = [m \in Modules |-> NoTime]
    /\ retryWatch = FALSE

SpecFirst == InitFirst /\ [][Next]_vars

TypeOK ==
    /\ Keys(cog_mtimes) \subseteq Modules
    /\ extensions \subseteq Modules
    /\ wpc \in WatcherAwaits \cup WatcherDone \cup {"none", "created", "scan"}

\* ------------------------------------------------------ reading the history
Lookup(d, k) == IF Has(d, k) THEN Get(d, k) ELSE NoTime

\* The history variables describe a cycle of the watcher: the watcher has
\* entered its loop and close() has not yet collected the finished task.
InWatcherCycle ==
    /\ mpc \in {"running", "close_await"}
    /\ \/ wpc \in WatcherAwaits \cup {"scan", "crashed"}
       \/ wpc = "cancelled" /\ lastScan = "ok"

\* The cycle has run to completion: the watcher is in its sleep.
CycleComplete == wpc = "sleep" /\ mpc \in {"running", "close_await"}

LoaderOps == {"load", "reload", "unload"}
CallsFor(m) == {i \in DOMAIN log : log[i].op \in LoaderOps /\ log[i].m = m}
CallsOf(op, m) == {i \in DOMAIN log : log[i].op = op /\ log[i].m = m}
SyncCalls == {i \in DOMAIN log : log[i].op = "sync"}
FailedCalls == {i \in DOMAIN log : log[i].res = "fail"}
CancelledCalls == {i \in DOMAIN log : log[i].res = "cancelled"}

\* The identifiers whose record the cycle has written or deleted so far.
Touched == {m \in Modules : Lookup(cog_mtimes, m) # Lookup(prevReg, m)}

\* The diff of a registry against a scan, by the tests of lines 136, 155, 173.
DiffAdded(reg, cur) == {m \in Keys(cur) : IsAdded(reg, m)}
DiffModified(reg, cur) == {m \in Keys(cur) : IsModified(reg, m, Get(cur, m))}
DiffRemoved(reg, cur) ==
    {RemovedList(reg, cur)[i] : i \in DOMAIN RemovedList(reg, cur)}
DiffEmpty(reg, cur) ==
    /\ DiffAdded(reg, cur) = {}
    /\ DiffModified(reg, cur) = {}
    /\ DiffRemoved(reg, cur) = {}

\* ------------------------------------------------------------------ C1
\* C1 as stated: a cancellation signalled during a cycle does not interrupt
\* it; the watcher ends only at the sleep boundary, with no call cut short
\* and the cycle's diff fully applied to the registry.
C1_CancelledOnlyAtSleep ==
    (InWatcherCycle /\ wpc = "cancelled")
        => (CancelledCalls = {} /\ DiffEmpty(cog_mtimes, current))

\* C1 amended: a cancellation signalled while the watcher is suspended in
\* an await (a loader call, a sync call or the sleep) ends the watcher at
\* that await: its next step is the end of the task, with no further call
\* started and no record written or deleted, so the rest of the cycle is
\* not carried out.
C1_CancelEndsWatcherAtAwait ==
    [][cancelRequested =>
         /\ wpc' = "cancelled"
         /\ cog_mtimes' = cog_mtimes
         /\ Len(log') = Len(log)]_vars

\* A load was started for a new module, the cancellation cut it short, and
\* the registry holds no record for it.
C1_Witness ==
    /\ InWatcherCycle
    /\ wpc = "cancelled"
    /\ log # <<>>
    /\ log[Len(log)].op = "load"
    /\ log[Len(log)].res = "cancelled"
    /\ log[Len(log)].m \in DiffAdded(cog_mtimes, current)

\* ------------------------------------------------------------------ C2
\* C2 as stated: a completed cycle that touched at least one identifier
\* made exactly one sync call.
C2_OneSyncPerCycle ==
    (CycleComplete /\ Touched # {}) => Cardinality(SyncCalls) = 1

\* C2 amended: tree.sync() is called once for each identifier the cycle
\* touches, right after that identifier's record is written or deleted: at
\* every await of a cycle the sync calls made so far are one per touched
\* identifier.
C2_OneSyncPerTouched ==
    InWatcherCycle =>
        /\ Cardinality(SyncCalls) = Cardinality(Touched)
        /\ \A m \in Touched : Cardinality(CallsOf("sync", m)) = 1

\* An empty registry, a scan of two modules, the cycle complete: two syncs.
C2_Witness ==
    /\ CycleComplete
    /\ prevReg = <<>>
    /\ Cardinality(Keys(current)) = 2
    /\ Cardinality(SyncCalls) = 2

\* ------------------------------------------------------------------ C3
\* C3 as stated: when the directory is missing or cannot be listed, at the
\* watcher's start or at a later scan, the scan is empty and the watcher
\* keeps running.
C3_UnavailableScanKeepsRunning ==
    lastScan = "unavailable"
        => (wpc \in WatcherAwaits \cup {"scan"} /\ current = <<>>)

\* ------------------------------------------------------------------ C4
\* The identifiers the cycle's scan classifies against the registry.
Classified ==
    DiffAdded(prevReg, current) \cup DiffModified(prevReg, current)
        \cup DiffRemoved(prevReg, current)

\* C4: whatever loader calls of a cycle fail, at the end of the cycle each
\* identifier classified as added or modified has had exactly one loader
\* call and holds the scan's mtime, and each removed identifier has had its
\* unload call (when it was loaded) and has lost its record.
C4_FailureIsolation ==
    CycleComplete =>
        \A m \in Classified :
            IF m \in DiffRemoved(prevReg, current)
            THEN /\ ~Has(cog_mtimes, m)
                 /\ Cardinality(CallsFor(m)) = IF m \in prevExt THEN 1 ELSE 0
            ELSE /\ Cardinality(CallsFor(m)) = 1
                 /\ Lookup(cog_mtimes, m) = Get(current, m)

\* A loader call failed and a later loader call of the same cycle was made
\* for another identifier.
C4_Witness ==
    /\ CycleComplete
    /\ \E i, j \in DOMAIN log :
         /\ i < j
         /\ log[i].res = "fail"
         /\ log[j].op \in LoaderOps
         /\ log[j].m # log[i].m

\* ------------------------------------------------------------------ C5
\* A load or reload of module m is pending in the watcher.
PendingRetry(m) ==
    /\ wpc \in {"added_load", "mod_reload", "mod_load"}
    /\ mpc \in {"running", "close_await"}
    /\ current[idx][1] = m

\* C5 as stated: once a load or reload of an identifier has failed at T,
\* the next attempt for it is made only for a scan mtime greater than T.
C5_RetryOnlyWhenNewer ==
    \A m \in Modules :
        (PendingRetry(m) /\ failedAt[m] # NoTime) => current[idx][2] > failedAt[m]

\* C5 amended: after a failed load or reload at T the registry records T,
\* and while the identifier's record stays in the registry no loader call
\* is made for it in a cycle whose scan reports T; the next attempt is made
\* only for a scan mtime greater than T.  (An identifier whose record was
\* removed in between is loaded again as a new one, whatever its mtime.)
C5_RetrySuppressedWhileRecorded ==
    /\ \A m \in Modules :
         (PendingRetry(m) /\ failedAt[m] # NoTime /\ Has(prevReg, m))
             => current[idx][2] > failedAt[m]
    /\ \A m \in Modules :
         (failedAt[m] # NoTime /\ Has(cog_mtimes, m) /\ ~PendingRetry(m)
          /\ mpc \in {"running", "close_await"})
             => Get(cog_mtimes, m) = failedAt[m]
    /\ \A i \in DOMAIN log :
         (log[i].op \in {"load", "reload"} /\ log[i].res = "fail")
             => (failedAt[log[i].m] # NoTime
                 /\ Lookup(cog_mtimes, log[i].m) = failedAt[log[i].m])

\* A cycle ran to its end over a scan that reports the mtime of the failed
\* attempt, and made no loader call for that module.
C5_Witness ==
    /\ CycleComplete
    /\ \E m \in Modules :
         /\ failedAt[m] # NoTime
         /\ Has(prevReg, m)
         /\ Has(current, m)
         /\ Get(current, m) = failedAt[m]
         /\ CallsFor(m) = {}
         /\ log # <<>>

\* ------------------------------------------------------------------ C6
\* C6: a module that is recorded and loaded but absent from the scan gets
\* exactly one unload call in the cycle and no other loader call, and when
\* the cycle ends its record is gone whether the unload succeeded or not.
C6_RemovalCleanup ==
    /\ InWatcherCycle => \A m \in Modules : Cardinality(CallsOf("unload", m)) <= 1
    /\ CycleComplete =>
         \A m \in DiffRemoved(prevReg, current) :
             m \in prevExt =>
                 /\ Cardinality(CallsOf("unload", m)) = 1
                 /\ Cardinality(CallsFor(m)) = 1
                 /\ ~Has(cog_mtimes, m)

\* The unload of a removed module failed and its record is gone.
C6_Witness ==
    /\ CycleComplete
    /\ \E i \in DOMAIN log :
         /\ log[i].op = "unload"
         /\ log[i].res = "fail"
         /\ Has(prevReg, log[i].m)
         /\ ~Has(cog_mtimes, log[i].m)

\* ------------------------------------------------------------------ C7
\* The recorded identifiers whose scan mtime equals the recorded one.
Unchanged ==
    {m \in Keys(prevReg) \cap Keys(current) : Get(current, m) = Get(prevReg, m)}

\* C7: throughout a cycle, no loader call is made for an identifier whose
\* scan mtime equals its recorded mtime, and its record stays as it was.
C7_NoSpuriousWork ==
    InWatcherCycle =>
        \A m \in Unchanged :
            /\ CallsFor(m) = {}
            /\ Lookup(cog_mtimes, m) = Get(prevReg, m)

\* A cycle that worked on one module and left an unchanged one alone.
C7_Witness ==
    /\ CycleComplete
    /\ Unchanged # {}
    /\ \E i \in DOMAIN log : log[i].op \in LoaderOps

\* ------------------------------------------------------------------ C8
\* C8: after a complete cycle, the diff of the resulting registry against
\* the same scan is empty, whatever the outcomes of the loader calls.
C8_Idempotence == CycleComplete => DiffEmpty(cog_mtimes, current)

\* A cycle that had something to apply, with a failed loader call in it.
C8_Witness ==
    /\ CycleComplete
    /\ ~DiffEmpty(prevReg, current)
    /\ FailedCalls # {}

\* ------------------------------------------------------------------ C9
\* C9: a failed load, reload, unload or sync never ends the watcher: the
\* task ends with an error only where a directory listing failed, before
\* any call of that cycle; after a failure the watcher is at an await of
\* its loop (or was cancelled there), and from its sleep, unless cancelled,
\* it starts the next cycle.
C9_FailuresStayInLoop ==
    /\ wpc = "crashed" => (lastScan = "unavailable" /\ log = <<>> /\ ~syncFailed)
    /\ (InWatcherCycle /\ (FailedCalls # {} \/ syncFailed))
           => wpc \in WatcherAwaits \cup {"cancelled"}
    /\ (CycleComplete /\ ~cancelRequested) => ENABLED SleepReturn

\* A cycle in which a loader call and a sync call failed reached its sleep.
C9_Witness ==
    /\ CycleComplete
    /\ FailedCalls # {}
    /\ syncFailed

\* ----------------------------------------------------------------- C10
\* C10: after a complete cycle the registry holds exactly the identifiers
\* of the cycle's scan, one record each.
C10_RegistryMatchesScan ==
    /\ Len(cog_mtimes) = Cardinality(Keys(cog_mtimes))
    /\ CycleComplete => Keys(cog_mtimes) = Keys(current)

\* A cycle that both added and removed an identifier.
C10_Witness ==
    /\ CycleComplete
    /\ Keys(prevReg) \ Keys(current) # {}
    /\ Keys(current) \ Keys(prevReg) # {}

\* ----------------------------------------------------------------- C11
\* C11: a cancellation signalled while the watcher is in its sleep ends the
\* watcher there: its next step is the end of the task, and from then on
\* the watcher starts no scan, no loader call and no sync call and changes
\* no record.
C11_SleepCancelStartsNoCycle ==
    [][/\ (cancelRequested /\ wpc = "sleep") =>
              /\ wpc' = "cancelled"
              /\ cog_mtimes' = cog_mtimes
              /\ extensions' = extensions
              /\ lastScan' = lastScan
              /\ log' = log
       /\ wpc = "cancelled" =>
              /\ wpc' = "cancelled"
              /\ cog_mtimes' = cog_mtimes
              /\ extensions' = extensions
              /\ lastScan' = lastScan
              /\ Len(log') <= Len(log)]_vars

\* The watcher was cancelled in the sleep after a cycle that made calls:
\* every call of the cycle has ended and none was cut short.
C11_Witness ==
    /\ wpc = "cancelled"
    /\ mpc = "close_await"
    /\ lastScan = "ok"
    /\ log # <<>>
    /\ \A i \in DOMAIN log : log[i].res \in {"ok", "fail", "done"}

\* ----------------------------------------------------------------- C12
\* close() has gone past its `await task`.
ClosePassed == mpc \in {"super_close", "closed", "close_raised"}

\* C12: close() signals the cancellation and waits for the watcher: while
\* it awaits the task, the cancellation is pending or the task has ended;
\* once close() is past the await (super().close() running, or close()
\* over) the watcher task has ended or never existed, and from then on no
\* scan, no loader or sync call and no change of a record is made.
C12_CloseJoinsWatcher ==
    /\ [](mpc = "close_await" => (cancelRequested \/ wpc \in WatcherDone))
    /\ [](ClosePassed => (wpc \in WatcherDone \cup {"none"} /\ ~cancelRequested))
    /\ [][ClosePassed =>
              /\ wpc' = wpc
              /\ cog_mtimes' = cog_mtimes
              /\ extensions' = extensions
              /\ lastScan' = lastScan
              /\ Len(log') <= Len(log)]_vars

\* close() returned after it had cancelled a watcher that had scanned and
\* recorded modules.
C12_Witness ==
    /\ mpc = "closed"
    /\ wpc = "cancelled"
    /\ lastScan = "ok"
    /\ cog_mtimes # <<>>

\* ----------------------------------------------------------------- C13
\* setup_hook is running: load_cogs or the startup sync is not yet over.
InStartup == mpc \in {"init", "lc_load", "setup_sync"}

\* The cog files among the first n entries of load_cogs' listing.
CogFilesUpTo(n) == {i \in 1..n : IsCogFile(lcEntries[i])}

\* The calls of the history that are loads.
LoadCalls == {i \in DOMAIN log : log[i].op = "load"}

\* C13: startup calls load once for every module file of its listing, in
\* the listing's order and whatever the earlier loads did; it goes on to
\* the sync only when no module file is left; it makes exactly one sync
\* call, after the loads; and the watcher task exists only once that sync
\* has ended, and is created then whether loads or the sync failed or not.
C13_StartupOrdering ==
    /\ [](InStartup => wpc = "none")
    /\ [](mpc = "lc_load" =>
             /\ LoadCalls = DOMAIN log
             /\ Len(log) = Cardinality(CogFilesUpTo(lcIdx))
             /\ {log[k].m : k \in DOMAIN log}
                    = {ModuleOf(lcEntries[i]) : i \in CogFilesUpTo(lcIdx)}
             /\ \A k \in 1..(Len(log) - 1) : log[k].res \in {"ok", "fail"})
    /\ []((mpc = "setup_sync" \/ (mpc = "running" /\ wpc = "created")) =>
             /\ log # <<>>
             /\ SyncCalls = {Len(log)}
             /\ \A k \in LoadCalls : log[k].res \in {"ok", "fail"}
             /\ \A j, k \in LoadCalls : j < k => log[j].m < log[k].m)
    /\ [][/\ (mpc = "lc_load" /\ mpc' = "setup_sync") =>
                (\A i \in (lcIdx + 1)..Len(lcEntries) : ~IsCogFile(lcEntries[i]))
          /\ (mpc = "setup_sync" /\ mpc' = "running") =>
                (wpc' = "created" /\ log'[Len(log')].res = "done")]_vars

\* Startup is over and the watcher created, after a load that failed, a
\* later load of another module, and a sync that failed.
C13_Witness ==
    /\ mpc = "running"
    /\ wpc = "created"
    /\ syncFailed
    /\ \E i, j \in LoadCalls : i < j /\ log[i].res = "fail"

\* ----------------------------------------------------------------- C14
\* C14: at most one watcher task is ever created, also where setup_hook is
\* called again: a call of setup_hook that finds a task in the field
\* leaves the field and the task alone.  The one task begins a cycle only
\* at its start or out of the sleep that ends the cycle before, when every
\* loader and sync call of that cycle has ended.
C14_OneWatcherNoOverlap ==
    /\ [](cog_watcher_task <= 1)
    /\ [](cog_watcher_task = 0 <=> wpc = "none")
    /\ [][/\ wpc' = "scan" =>
                (/\ wpc \in {"sleep", "created"}
                 /\ \A i \in DOMAIN log : log[i].res # "pending")
          /\ (mpc = "setup_sync" /\ mpc' = "running" /\ wpc # "none") =>
                (wpc' = wpc /\ cog_watcher_task' = cog_watcher_task)]_vars

\* setup_hook was called a second time and has returned while the one
\* watcher task is in a cycle.
C14_Witness ==
    /\ hookBudget <= MaxHooks - 2
    /\ mpc = "running"
    /\ wpc \in CycleAwaits
    /\ cog_watcher_task = 1

\* ----------------------------------------------------------------- C15
\* The loader calls of the history made for module m, by operation.
OpsFor(m) == {log[i].op : i \in CallsFor(m)}

\* C15: an identifier the registry holds with a recorded mtime lower than
\* the scan's gets exactly one loader call in the cycle: reload when the
\* module is loaded, load when it is not; after the call, failed or not,
\* its record is the scan's mtime, and the step that writes it changes no
\* other identifier's record.
C15_ModifiedHandling ==
    /\ [](CycleComplete =>
             \A m \in DiffModified(prevReg, current) :
                 /\ Cardinality(CallsFor(m)) = 1
                 /\ OpsFor(m) = {IF m \in prevExt THEN "reload" ELSE "load"}
                 /\ Lookup(cog_mtimes, m) = Get(current, m))
    /\ [][(wpc \in {"mod_reload", "mod_load"} /\ wpc' = "mod_sync") =>
              /\ (wpc = "mod_reload") = (current[idx][1] \in extensions)
              /\ Lookup(cog_mtimes', current[idx][1]) = current[idx][2]
              /\ \A m \in Modules \ {current[idx][1]} :
                     Lookup(cog_mtimes', m) = Lookup(cog_mtimes, m)]_vars

\* A cycle over two modified identifiers, one loaded and one not: a reload
\* and a load were called, one of them failed, and both records hold the
\* scan's mtime.
C15_Witness ==
    /\ CycleComplete
    /\ \E m, n \in DiffModified(prevReg, current) :
         /\ OpsFor(m) = {"reload"}
         /\ OpsFor(n) = {"load"}
         /\ Lookup(cog_mtimes, m) = Get(current, m)
         /\ Lookup(cog_mtimes, n) = Get(current, n)
    /\ FailedCalls # {}

\* ----------------------------------------------------------------- C16
\* C16 as stated: close() never ends by raising: in every state of the
\* watcher task, also when the task has ended with an error, and when
\* called a second time, it goes on to the parent close.
C16_CloseNeverRaises == mpc # "close_raised"

\* ----------------------------------------------------------------- C17
\* C17 as stated: whenever the watcher is in its sleep, every module the
\* loader holds as loaded has a record in the registry.
C17_LoadedImpliesTracked == wpc = "sleep" => extensions \subseteq Keys(cog_mtimes)

\* ----------------------------------------------------------------- C18
\* Module m had its record popped in an earlier cycle, has had none since,
\* and this cycle's scan holds it again.
Readded(m) ==
    /\ removedAt[m] # NoTime
    /\ ~Has(prevReg, m)
    /\ Has(current, m)

\* C18: an identifier whose record was popped, after an unload that
\* succeeded or failed or with no unload, and that a later scan holds
\* again, is handled as a new one: the cycle makes exactly one loader call
\* for it, a load, and records the scan's mtime, whether that mtime is
\* greater than, equal to or lower than the one recorded before the pop.
C18_ReaddedIsLoadedOnce ==
    /\ InWatcherCycle =>
          \A m \in Modules :
              Readded(m) => (Cardinality(CallsFor(m)) <= 1 /\ OpsFor(m) \subseteq {"load"})
    /\ CycleComplete =>
          \A m \in Modules :
              Readded(m) =>
                  /\ Cardinality(CallsFor(m)) = 1
                  /\ OpsFor(m) = {"load"}
                  /\ Lookup(cog_mtimes, m) = Get(current, m)

\* A module whose unload had failed (it was still loaded when the cycle
\* began) came back with a lower mtime than the one recorded before the
\* pop, and the cycle ran to its end.
C18_Witness ==
    /\ CycleComplete
    /\ \E m \in Modules :
         /\ Readded(m)
         /\ m \in prevExt
         /\ Get(current, m) < removedAt[m]

\* ----------------------------------------------------------------- C19
\* The recorded identifiers for which the scan reports a lower mtime than
\* the recorded one.
Older ==
    {m \in Keys(prevReg) \cap Keys(current) : Get(current, m) < Get(prevReg, m)}

\* C19: no step lowers the recorded mtime of an identifier that stays in
\* the registry; throughout a cycle whose scan reports a lower mtime than
\* the recorded one for an identifier, no loader call and no sync call is
\* made for it and its record stays as it was.
C19_RecordNeverDecreases ==
    /\ [](InWatcherCycle =>
             \A m \in Older :
                 /\ CallsFor(m) = {}
                 /\ CallsOf("sync", m) = {}
                 /\ Lookup(cog_mtimes, m) = Get(prevReg, m))
    /\ [][\A m \in Keys(cog_mtimes) \cap Keys(cog_mtimes') :
              Get(cog_mtimes', m) >= Get(cog_mtimes, m)]_vars

\* A cycle that made calls for another module ran to its end over a scan
\* that reports a lower mtime than the recorded one.
C19_Witness ==
    /\ CycleComplete
    /\ Older # {}
    /\ \E i \in DOMAIN log : log[i].op \in LoaderOps

\* ----------------------------------------------------------------- C20
\* The identifiers the added loop of this cycle has been through: those
\* the scan holds and the registry did not at the cycle's start, with a
\* load call in the history.
LoadedAsAdded == {m \in DiffAdded(prevReg, current) : CallsOf("load", m) # {}}

\* C20: at every point of a cycle each identifier has had at most one
\* loader call; an identifier loaded in the added loop holds the scan's
\* mtime from the end of that call on, so neither the modified loop nor
\* the removed loop of the cycle selects it.
C20_OneLoaderCallPerCycle ==
    InWatcherCycle =>
        /\ \A m \in Modules : Cardinality(CallsFor(m)) <= 1
        /\ \A m \in LoadedAsAdded :
              \/ \E i \in CallsFor(m) : log[i].res \in {"pending", "cancelled"}
              \/ /\ Lookup(cog_mtimes, m) = Get(current, m)
                 /\ ~IsModified(cog_mtimes, m, Get(current, m))
                 /\ m \notin DiffRemoved(cog_mtimes, current)

\* A cycle that loaded a new module and reloaded or loaded a modified one
\* ran to its end.
C20_Witness ==
    /\ CycleComplete
    /\ LoadedAsAdded # {}
    /\ \E m \in DiffModified(prevReg, current) : CallsFor(m) # {}

\* ----------------------------------------------------------------- C21
\* The scan reports the registry's identifiers, each with its recorded mtime.
SameScan(reg, cur) ==
    /\ Keys(cur) = Keys(reg)
    /\ \A m \in Keys(cur) : Get(cur, m) = Get(reg, m)

\* C21: when startup is over the registry holds every module a startup
\* load was called for, failed loads included, each load's return having
\* recorded the mtime read for that file; and a first watcher cycle whose
\* scan reports just these identifiers and mtimes makes no loader call and
\* no sync call and changes neither the registry nor the loaded modules.
C21_StartupBaseline ==
    /\ []((mpc = "running" /\ wpc = "created") =>
             Keys(cog_mtimes) = {log[k].m : k \in LoadCalls})
    /\ [][mpc = "lc_load" =>
             Lookup(cog_mtimes', ModuleOf(lcEntries[lcIdx])) = lcMtime]_vars
    /\ []((/\ cyclePhase = "first"
           /\ InWatcherCycle
           /\ wpc # "scan"
           /\ lastScan = "ok"
           /\ SameScan(prevReg, current)) =>
             /\ wpc \in {"sleep", "cancelled"}
             /\ log = <<>>
             /\ cog_mtimes = prevReg
             /\ extensions = prevExt)

\* The first cycle ran to its end over a directory as startup read it, in
\* which a module's startup load had failed: recorded, not loaded, and
\* left alone.
C21_Witness ==
    /\ CycleComplete
    /\ cyclePhase = "first"
    /\ SameScan(prevReg, current)
    /\ Keys(prevReg) \ prevExt # {}
    /\ log = <<>>

\* ----------------------------------------------------------------- C22
\* C22: a recorded identifier that is absent from the scan and was not
\* loaded when the cycle began gets no unload call and no other loader
\* call at any point of the cycle, and when the cycle ends its record is
\* gone.
C22_RemovedNotLoaded ==
    /\ InWatcherCycle =>
          \A m \in DiffRemoved(prevReg, current) \ prevExt : CallsFor(m) = {}
    /\ CycleComplete =>
          \A m \in DiffRemoved(prevReg, current) \ prevExt : ~Has(cog_mtimes, m)

\* A cycle dropped the record of a module that was recorded but not
\* loaded (its load had failed), with no loader call for it, and made the
\* sync call that follows the drop.
C22_Witness ==
    /\ CycleComplete
    /\ \E m \in DiffRemoved(prevReg, current) \ prevExt :
         /\ CallsFor(m) = {}
         /\ CallsOf("sync", m) # {}
         /\ ~Has(cog_mtimes, m)

\* ----------------------------------------------------------------- C23
\* The scan has exactly the registry's identifiers, none with an mtime
\* greater than the recorded one.
NothingNew(reg, cur) ==
    /\ Keys(cur) = Keys(reg)
    /\ \A m \in Keys(cur) : Get(cur, m) <= Get(reg, m)

\* C23: a cycle whose scan has exactly the registry's identifiers and no
\* greater mtime goes from the scan straight to the sleep: it makes no
\* loader call and no sync call and leaves the registry and the loaded
\* modules as they were.
C23_EmptyDiffNoWork ==
    (/\ InWatcherCycle
     /\ wpc # "scan"
     /\ lastScan = "ok"
     /\ NothingNew(prevReg, current)) =>
        /\ wpc \in {"sleep", "cancelled"}
        /\ log = <<>>
        /\ cog_mtimes = prevReg
        /\ extensions = prevExt

\* A cycle over a registry that holds a module that is not loaded and a
\* scan that reports a lower mtime for a module ran to its end with
\* nothing done.
C23_Witness ==
    /\ CycleComplete
    /\ NothingNew(prevReg, current)
    /\ Keys(prevReg) \ prevExt # {}
    /\ Older # {}
    /\ log = <<>>
    /\ cog_mtimes = prevReg

\* ----------------------------------------------------------------- C25
\* The loop of the cycle that handles identifier m: 1 added, 2 modified,
\* 3 removed, by the registry at the cycle's start and the scan.
LoopOf(m) ==
    IF m \in DiffAdded(prevReg, current) THEN 1
    ELSE IF m \in DiffModified(prevReg, current) THEN 2
    ELSE 3

\* The identifier has had its loader call, and the call has ended.
CallEnded(m) == \E i \in CallsFor(m) : log[i].res \in {"ok", "fail"}

\* C25: in the history of a cycle the calls made for added identifiers
\* come before those for modified ones, and these before those for
\* removed ones; when a call for a modified identifier is made every added
\* identifier has had its load, and when an unload is called or a removed
\* identifier's record is deleted every added and every modified
\* identifier has had its call.
C25_PhaseOrder ==
    (InWatcherCycle /\ wpc # "scan" /\ lastScan = "ok") =>
        /\ \A i, j \in DOMAIN log : i < j => LoopOf(log[i].m) <= LoopOf(log[j].m)
        /\ \A i \in DOMAIN log :
              LoopOf(log[i].m) >= 2 =>
                  \A n \in DiffAdded(prevReg, current) : CallEnded(n)
        /\ \A i \in DOMAIN log :
              LoopOf(log[i].m) = 3 =>
                  \A n \in DiffModified(prevReg, current) : CallEnded(n)
        /\ \A m \in DiffRemoved(prevReg, current) :
              ~Has(cog_mtimes, m) =>
                  \A n \in DiffAdded(prevReg, current) \cup DiffModified(prevReg, current) :
                      CallEnded(n)

\* A cycle made loader calls in two of its loops, the call of the earlier
\* loop first, and ran to its end.
C25_Witness ==
    /\ CycleComplete
    /\ \E i, j \in DOMAIN log :
         /\ i < j
         /\ log[i].op \in LoaderOps
         /\ log[j].op \in LoaderOps
         /\ LoopOf(log[i].m) < LoopOf(log[j].m)

\* ----------------------------------------------------------------- C24
\* The watcher is in its loop, close() has not been called, and no scan has
\* failed.
WatcherAlive ==
    /\ mpc = "running"
    /\ wpc \in WatcherAwaits \cup {"scan"}
    /\ ~cancelRequested

\* What a scan can report.
ScanResults == {ScanDir(dir) : dir \in Directories}

\* The registry reflects scan c: the same identifiers, none recorded with
\* an older mtime than the scan's.
Reflects(reg, c) ==
    /\ Keys(reg) = Keys(c)
    /\ \A m \in Keys(c) : Get(reg, m) >= Get(c, m)

\* The cycle owes identifier m a loader call: it is new, or newer than
\* recorded, or gone while loaded.
Owed(m) ==
    \/ m \in DiffAdded(prevReg, current)
    \/ m \in DiffModified(prevReg, current)
    \/ m \in DiffRemoved(prevReg, current) \cap prevExt

\* C24: as long as the watcher stays alive (the directory listable, no
\* cancellation), a sleeping watcher scans again; a cycle that owes an
\* identifier its load, reload or unload makes that call; and a state of
\* the directory that persists, reported by every scan from some point
\* on, is from some point on reflected by the registry, with the watcher
\* back in its sleep again and again.
C24_ChangesEventuallyApplied ==
    /\ (WatcherAlive /\ wpc = "sleep") ~> (wpc = "scan" \/ ~WatcherAlive)
    /\ \A m \in Modules :
          (WatcherAlive /\ wpc \in CycleAwaits /\ Owed(m))
              ~> ((Owed(m) /\ CallEnded(m)) \/ ~WatcherAlive)
    /\ \A c \in ScanResults :
          <>[](WatcherAlive /\ (wpc # "scan" => current = c))
              => (<>[]Reflects(cog_mtimes, c) /\ []<>(wpc = "sleep"))

\* A cycle that owed both modules a call has made the calls and ended with
\* the registry reflecting its scan.
C24_Witness ==
    /\ WatcherAlive
    /\ wpc = "sleep"
    /\ \A m \in Modules : Owed(m) /\ CallEnded(m)
    /\ Reflects(cog_mtimes, current)

====
